---- MODULE Spec2Model ----
(***************************************************************************)
(* Model of libredex/Configurable.cpp: the dual-mode (parse_config /        *)
(* reflect) configuration binder and the as<T> conversions of a Json node   *)
(* into each bindable C++ type.                                             *)
(*                                                                         *)
(* Encodings.                                                               *)
(*  - A Json::Value is a record [k, s, i, b, items, m]: k is the node       *)
(*    kind, s/i/b the scalar payload, items the elements of an array, m the *)
(*    members of an object (a function from member name to node).           *)
(*  - A bindflags_t word is the set of the bits that are set in it, so      *)
(*    (bindflags & ~mask) != 0 is  bindflags \ mask # {}.                    *)
(*  - std::vector is a sequence, std::unordered_set a set, std::map /       *)
(*    std::unordered_map a function, a resolved DexType* / DexClass* /      *)
(*    DexMethod* a record [sym, name].                                      *)
(*  - The outcome of a call is a record whose status is "ok", "assert" (an  *)
(*    always_assert_log that failed) or "throw" (a C++ exception).          *)
(***************************************************************************)
EXTENDS Integers, Sequences, FiniteSets, TLC

VARIABLES
  m_after_configuration, \* Configurable::m_after_configuration
  m_parser,              \* Configurable::m_parser
  m_reflector,           \* Configurable::m_reflector
  fields,                \* the unit's bound fields, by parameter name
  last,                  \* what the last parse_config / reflect call did
  pc,                    \* "unit", or position of the conversion call
  call,                  \* the as<T> call: [shape, node, flags]
  out                    \* the outcome of the as<T> call

vars == <<m_after_configuration, m_parser, m_reflector, fields, last, pc, call, out>>

----------------------------------------------------------------------------
(* Bounds *)

\* longest array of strings handed to a conversion
MaxLen == 3
\* longest array stored under a key of an object node
MaxObjLen == 2
\* longest array in the nodes every flag word is tried on
MaxFlagLen == 1

----------------------------------------------------------------------------
(* Json nodes *)

Names == {"a", "b", "c"}
Keys == {"a", "b"}
KeyOrder == <<"a", "b">>

NullN == [k |-> "null", s |-> "", i |-> 0, b |-> FALSE, items |-> <<>>, m |-> <<>>]
BoolN(v) == [k |-> "bool", s |-> "", i |-> 0, b |-> v, items |-> <<>>, m |-> <<>>]
IntN(v) == [k |-> "int", s |-> "", i |-> v, b |-> FALSE, items |-> <<>>, m |-> <<>>]
StrN(v) == [k |-> "string", s |-> v, i |-> 0, b |-> FALSE, items |-> <<>>, m |-> <<>>]
ArrN(q) == [k |-> "array", s |-> "", i |-> 0, b |-> FALSE, items |-> q, m |-> <<>>]
ObjN(f) == [k |-> "object", s |-> "", i |-> 0, b |-> FALSE, items |-> <<>>, m |-> f]

SeqsUpTo(S, n) == UNION {[1..len -> S] : len \in 0..n}

isObject(value) == value.k = "object"
isArray(value) == value.k = "array"
isString(value) == value.k = "string"

\* Json::Value::asString: defined on null, bool, number and string nodes,
\* a Json::LogicError on arrays and objects.
CanAsString(value) == value.k \in {"null", "bool", "int", "string"}
asString(value) ==
  CASE value.k = "string" -> value.s
    [] value.k = "null" -> ""
    [] value.k = "bool" -> IF value.b THEN "true" ELSE "false"
    [] value.k = "int" -> IF value.i = 1 THEN "1" ELSE IF value.i = -1 THEN "-1" ELSE "0"

\* asInt / asInt64 / asFloat: null is 0, bool is 0 or 1, a number is itself.
CanAsInt(value) == value.k \in {"null", "bool", "int"}
asInt(value) ==
  CASE value.k = "int" -> value.i
    [] value.k = "bool" -> IF value.b THEN 1 ELSE 0
    [] value.k = "null" -> 0

\* asUInt / asUInt64: as asInt, and a Json::LogicError on a negative number.
CanAsUInt(value) == CanAsInt(value) /\ asInt(value) >= 0

\* asBool: null is false, a number is (n != 0).
CanAsBool(value) == value.k \in {"null", "bool", "int"}
asBool(value) ==
  CASE value.k = "bool" -> value.b
    [] value.k = "int" -> value.i # 0
    [] value.k = "null" -> FALSE

\* The member names of an object, in the order Json::Value iterates them.
RECURSIVE MemberNamesFrom(_, _)
MemberNamesFrom(value, j) ==
  IF j > Len(KeyOrder) THEN <<>>
  ELSE (IF KeyOrder[j] \in DOMAIN value.m THEN <<KeyOrder[j]>> ELSE <<>>)
       \o MemberNamesFrom(value, j + 1)
MemberNames(value) == IF isObject(value) THEN MemberNamesFrom(value, 1) ELSE <<>>

\* for (auto& el : value): the elements of an array, the member values of an
\* object, nothing for any other node.
Children(value) ==
  CASE isArray(value) -> value.items
    [] isObject(value) ->
         [j \in 1..Len(MemberNames(value)) |-> value.m[MemberNames(value)[j]]]
    [] OTHER -> <<>>

----------------------------------------------------------------------------
(* Bindflags *)

types_error_if_unresolvable == "types::error_if_unresolvable"
types_warn_if_unresolvable == "types::warn_if_unresolvable"
classes_error_if_unresolvable == "classes::error_if_unresolvable"
classes_warn_if_unresolvable == "classes::warn_if_unresolvable"
methods_error_if_unresolvable == "methods::error_if_unresolvable"
methods_warn_if_unresolvable == "methods::warn_if_unresolvable"
methods_error_if_not_def == "methods::error_if_not_def"
methods_warn_if_not_def == "methods::warn_if_not_def"
optionals_skip_empty_string == "optionals::skip_empty_string"

types_mask == {types_error_if_unresolvable, types_warn_if_unresolvable}
classes_mask == {classes_error_if_unresolvable, classes_warn_if_unresolvable}
methods_mask == {methods_error_if_unresolvable, methods_warn_if_unresolvable,
                 methods_error_if_not_def, methods_warn_if_not_def}
optionals_mask == {optionals_skip_empty_string}

AllBits == types_mask \cup classes_mask \cup methods_mask \cup optionals_mask
FlagWords == SUBSET AllBits

----------------------------------------------------------------------------
(* The host program's symbol tables *)

nullptr == [sym |-> "nullptr", name |-> ""]

\* DexType::get_type
KnownTypes == {"a", "b"}
get_type(name) == IF name \in KnownTypes THEN [sym |-> "DexType", name |-> name] ELSE nullptr

\* type_class(DexType::get_type(DexString::get_string(name)))
KnownClasses == {"a"}
type_class(type) ==
  IF type # nullptr /\ type.name \in KnownClasses
  THEN [sym |-> "DexClass", name |-> type.name] ELSE nullptr

\* DexMethod::get_method and DexMethod::is_def
KnownMethods == {"a", "b"}
DefinedMethods == {"a"}
get_method(name) ==
  IF name \in KnownMethods THEN [sym |-> "DexMethod", name |-> name] ELSE nullptr
is_def(meth) == meth.name \in DefinedMethods

----------------------------------------------------------------------------
(* Outcomes *)

\* what one step of a call did: ev is the kind of step, name its subject
Ev(ev, name) == [ev |-> ev, name |-> name]

Ok(v, diags, trace) ==
  [status |-> "ok", exc |-> "", value |-> v, diags |-> diags, trace |-> trace]
AssertFailed(diags, trace) ==
  [status |-> "assert", exc |-> "", value |-> <<>>, diags |-> diags, trace |-> trace]
Thrown(exc, diags, trace) ==
  [status |-> "throw", exc |-> exc, value |-> <<>>, diags |-> diags, trace |-> trace]
Pending == [status |-> "pending", exc |-> "", value |-> <<>>, diags |-> <<>>, trace |-> <<>>]

----------------------------------------------------------------------------
(* The as<T> conversions *)

\* #define error_or_warn(error, warn, msg, ...): the assertion fails when
\* error is set; otherwise msg is printed when warn is NOT set.
\* (variant: the assertion is dropped, so the error bit no longer aborts)
error_or_warn_never_aborts(error, warn) ==
  [assert_failed |-> FALSE, printed |-> ~warn]
error_or_warn(error, warn) ==
  [assert_failed |-> error, printed |-> (~error) /\ (~warn)]

\* #define ASSERT_NO_BINDFLAGS(type): TRUE when the assertion holds
ASSERT_NO_BINDFLAGS(bindflags) == bindflags = {}

\* always_assert_log(!(bindflags & ~mask), ...): TRUE when the assertion holds
\* (variant: the mask is not checked)
OnlyBindflags_unchecked(bindflags, mask) == TRUE
OnlyBindflags(bindflags, mask) == bindflags \ mask = {}

\* a scalar specialization: ASSERT_NO_BINDFLAGS, then the node's accessor
Scalar(bindflags, accessor, can, v) ==
  IF ~ASSERT_NO_BINDFLAGS(bindflags) THEN AssertFailed(<<>>, <<>>)
  ELSE IF ~can THEN Thrown("Json::LogicError", <<>>, <<Ev(accessor, "")>>)
  ELSE Ok(v, <<>>, <<Ev(accessor, "")>>)

as_float(value, bindflags) ==
  Scalar(bindflags, "asFloat", CanAsInt(value), IF CanAsInt(value) THEN asInt(value) ELSE 0)

as_int(value, bindflags) ==
  Scalar(bindflags, "asInt", CanAsInt(value), IF CanAsInt(value) THEN asInt(value) ELSE 0)

as_unsigned_int(value, bindflags) ==
  Scalar(bindflags, "asUInt", CanAsUInt(value), IF CanAsUInt(value) THEN asInt(value) ELSE 0)

as_long(value, bindflags) ==
  Scalar(bindflags, "asInt64", CanAsInt(value), IF CanAsInt(value) THEN asInt(value) ELSE 0)

as_unsigned_long(value, bindflags) ==
  Scalar(bindflags, "asUInt64", CanAsUInt(value), IF CanAsUInt(value) THEN asInt(value) ELSE 0)

as_long_long(value, bindflags) ==
  Scalar(bindflags, "asInt64", CanAsInt(value), IF CanAsInt(value) THEN asInt(value) ELSE 0)

as_unsigned_long_long(value, bindflags) ==
  Scalar(bindflags, "asUInt64", CanAsUInt(value), IF CanAsUInt(value) THEN asInt(value) ELSE 0)

as_bool(value, bindflags) ==
  Scalar(bindflags, "asBool", CanAsBool(value), IF CanAsBool(value) THEN asBool(value) ELSE FALSE)

as_string(value, bindflags) ==
  Scalar(bindflags, "asString", CanAsString(value), IF CanAsString(value) THEN asString(value) ELSE "")

\* boost::optional<std::string>
none == [present |-> FALSE, s |-> ""]
some(str) == [present |-> TRUE, s |-> str]

\* lines 142-147: the empty string collapses to boost::none under the flag
\* (variant: the flag is ignored, every empty string collapses)
optional_of_ignoring_flag(str, bindflags) == IF str = "" THEN none ELSE some(str)
optional_of(str, bindflags) ==
  IF str = "" /\ optionals_skip_empty_string \in bindflags THEN none ELSE some(str)

as_optional_string(value, bindflags) ==
  IF ~OnlyBindflags(bindflags, {optionals_skip_empty_string}) THEN AssertFailed(<<>>, <<>>)
  ELSE IF ~CanAsString(value) THEN Thrown("Json::LogicError", <<>>, <<Ev("asString", "")>>)
  ELSE Ok(optional_of(asString(value), bindflags), <<>>, <<Ev("asString", "")>>)

\* result.emplace_back(x) on a std::vector
\* (variant: an element already in the vector is not added again)
emplace_back_unique(result, x) ==
  IF \E j \in 1..Len(result) : result[j] = x THEN result ELSE Append(result, x)
emplace_back(result, x) == Append(result, x)
\* result.emplace(x) on a std::unordered_set
emplace(result, x) == result \cup {x}

\* lines 155-157 / 167-169: for (auto& str : value) result.add(str.asString())
RECURSIVE strings_loop(_, _, _, _, _)
strings_loop(els, j, isSet, result, trace) ==
  IF j > Len(els) THEN Ok(result, <<>>, trace)
  ELSE IF ~CanAsString(els[j])
       THEN Thrown("Json::LogicError", <<>>, Append(trace, Ev("asString", "")))
  ELSE strings_loop(els, j + 1, isSet,
                    IF isSet THEN emplace(result, asString(els[j]))
                             ELSE emplace_back(result, asString(els[j])),
                    Append(trace, Ev("asString", asString(els[j]))))

as_vector_string(value, bindflags) ==
  IF ~ASSERT_NO_BINDFLAGS(bindflags) THEN AssertFailed(<<>>, <<>>)
  ELSE strings_loop(Children(value), 1, FALSE, <<>>, <<Ev("iterate", "")>>)

as_unordered_set_string(value, bindflags) ==
  IF ~ASSERT_NO_BINDFLAGS(bindflags) THEN AssertFailed(<<>>, <<>>)
  ELSE strings_loop(Children(value), 1, TRUE, {}, <<Ev("iterate", "")>>)

\* the error_or_warn call of each resolution failure, on the bits of bindflags
unresolvable_type(bindflags) ==
  error_or_warn(types_error_if_unresolvable \in bindflags,
                types_warn_if_unresolvable \in bindflags)
unresolvable_class(bindflags) ==
  error_or_warn(classes_error_if_unresolvable \in bindflags,
                classes_warn_if_unresolvable \in bindflags)
unresolvable_method(bindflags) ==
  error_or_warn(methods_error_if_unresolvable \in bindflags,
                methods_warn_if_unresolvable \in bindflags)
\* (variant: the not-a-definition failure is gated by the unresolvable bits)
not_def_method_wrong_bits(bindflags) ==
  error_or_warn(methods_error_if_unresolvable \in bindflags,
                methods_warn_if_unresolvable \in bindflags)
not_def_method(bindflags) ==
  error_or_warn(methods_error_if_not_def \in bindflags,
                methods_warn_if_not_def \in bindflags)

\* the messages error_or_warn prints
FailedToResolve(name) == Ev("failed to resolve", name)
ResolvedToReference(name) == Ev("resolved to a method reference", name)

\* the loop of the three DexType specializations (lines 180-191, 203-214,
\* 226-237): resolve each element, error_or_warn on an unresolved one
RECURSIVE types_loop(_, _, _, _, _, _, _)
types_loop(els, j, bindflags, isSet, result, diags, trace) ==
  IF j > Len(els) THEN Ok(result, diags, trace)
  ELSE IF ~CanAsString(els[j])
       THEN Thrown("Json::LogicError", diags, Append(trace, Ev("asString", "")))
  ELSE LET name == asString(els[j])
           type == get_type(name)
           tr == Append(trace, Ev("get_type", name))
           ew == unresolvable_type(bindflags)
       IN IF type = nullptr
          THEN IF ew.assert_failed THEN AssertFailed(diags, tr)
               ELSE types_loop(els, j + 1, bindflags, isSet, result,
                               IF ew.printed THEN Append(diags, FailedToResolve(name)) ELSE diags, tr)
          ELSE types_loop(els, j + 1, bindflags, isSet,
                          IF isSet THEN emplace(result, type)
                                   ELSE emplace_back(result, type),
                          diags, tr)

as_vector_DexType(value, bindflags) ==
  IF ~OnlyBindflags(bindflags, types_mask) THEN AssertFailed(<<>>, <<>>)
  ELSE types_loop(Children(value), 1, bindflags, FALSE, <<>>, <<>>, <<Ev("iterate", "")>>)

as_unordered_set_DexType(value, bindflags) ==
  IF ~OnlyBindflags(bindflags, types_mask) THEN AssertFailed(<<>>, <<>>)
  ELSE types_loop(Children(value), 1, bindflags, TRUE, {}, <<>>, <<Ev("iterate", "")>>)

as_unordered_set_const_DexType(value, bindflags) ==
  IF ~OnlyBindflags(bindflags, types_mask) THEN AssertFailed(<<>>, <<>>)
  ELSE types_loop(Children(value), 1, bindflags, TRUE, {}, <<>>, <<Ev("iterate", "")>>)

\* lines 248-260
RECURSIVE classes_loop(_, _, _, _, _, _)
classes_loop(els, j, bindflags, result, diags, trace) ==
  IF j > Len(els) THEN Ok(result, diags, trace)
  ELSE IF ~CanAsString(els[j])
       THEN Thrown("Json::LogicError", diags, Append(trace, Ev("asString", "")))
  ELSE LET name == asString(els[j])
           cls == type_class(get_type(name))
           tr == Append(trace, Ev("type_class", name))
           ew == unresolvable_class(bindflags)
       IN IF cls = nullptr
          THEN IF ew.assert_failed THEN AssertFailed(diags, tr)
               ELSE classes_loop(els, j + 1, bindflags, result,
                                 IF ew.printed THEN Append(diags, FailedToResolve(name)) ELSE diags, tr)
          ELSE classes_loop(els, j + 1, bindflags, emplace(result, cls), diags, tr)

as_unordered_set_DexClass(value, bindflags) ==
  IF ~OnlyBindflags(bindflags, classes_mask) THEN AssertFailed(<<>>, <<>>)
  ELSE classes_loop(Children(value), 1, bindflags, {}, <<>>, <<Ev("iterate", "")>>)

\* lines 271-290
RECURSIVE methods_loop(_, _, _, _, _, _)
methods_loop(els, j, bindflags, result, diags, trace) ==
  IF j > Len(els) THEN Ok(result, diags, trace)
  ELSE IF ~CanAsString(els[j])
       THEN Thrown("Json::LogicError", diags, Append(trace, Ev("asString", "")))
  ELSE LET name == asString(els[j])
           meth == get_method(name)
           tr == Append(trace, Ev("get_method", name))
           tr2 == Append(tr, Ev("is_def", name))
           ew == unresolvable_method(bindflags)
           ew2 == not_def_method(bindflags)
       IN IF meth = nullptr
          THEN IF ew.assert_failed THEN AssertFailed(diags, tr)
               ELSE methods_loop(els, j + 1, bindflags, result,
                                 IF ew.printed THEN Append(diags, FailedToResolve(name)) ELSE diags, tr)
          ELSE IF ~is_def(meth)
          THEN IF ew2.assert_failed THEN AssertFailed(diags, tr2)
               ELSE methods_loop(els, j + 1, bindflags, result,
                                 IF ew2.printed THEN Append(diags, ResolvedToReference(name)) ELSE diags, tr2)
          ELSE methods_loop(els, j + 1, bindflags, emplace(result, meth), diags, tr2)

as_unordered_set_DexMethod(value, bindflags) ==
  IF ~OnlyBindflags(bindflags, methods_mask) THEN AssertFailed(<<>>, <<>>)
  ELSE methods_loop(Children(value), 1, bindflags, {}, <<>>, <<Ev("iterate", "")>>)

\* result[k].emplace_back(s) on a std::map: the entry is created on first use
map_emplace_back(result, k, s) ==
  IF k \in DOMAIN result
  THEN [result EXCEPT ![k] = emplace_back(result[k], s)]
  ELSE (k :> <<s>>) @@ result

\* "expected ..., got:" + v.asString(): asString itself throws on a container
expected_got(v) == IF CanAsString(v) THEN "std::runtime_error" ELSE "Json::LogicError"

\* lines 312-317: the strings of one member
RECURSIVE map_inner_loop(_, _, _, _, _)
map_inner_loop(k, els, j, result, trace) ==
  IF j > Len(els) THEN Ok(result, <<>>, trace)
  ELSE IF ~isString(els[j])
       THEN Thrown(expected_got(els[j]), <<>>, Append(trace, Ev("isString", k)))
  ELSE map_inner_loop(k, els, j + 1, map_emplace_back(result, k, asString(els[j])),
                      Append(trace, Ev("isString", k)))

\* lines 303-318: the members of the object. A member name is always a
\* string, so the k.isString() test never fails.
RECURSIVE map_loop(_, _, _, _, _)
map_loop(value, ks, j, result, trace) ==
  IF j > Len(ks) THEN Ok(result, <<>>, trace)
  ELSE LET k == ks[j]
           v == value.m[k]
           tr == Append(trace, Ev("isArray", k))
       IN IF ~isArray(v) THEN Thrown(expected_got(v), <<>>, tr)
          ELSE LET inner == map_inner_loop(k, v.items, 1, result, tr)
               IN IF inner.status # "ok" THEN inner
                  ELSE map_loop(value, ks, j + 1, inner.value, inner.trace)

as_MapOfVectorOfStrings(value, bindflags) ==
  IF ~ASSERT_NO_BINDFLAGS(bindflags) THEN AssertFailed(<<>>, <<>>)
  ELSE IF ~isObject(value) THEN Thrown(expected_got(value), <<>>, <<Ev("isObject", "")>>)
  ELSE map_loop(value, MemberNames(value), 1, <<>>, <<Ev("isObject", "")>>)

as_Json_Value(value, bindflags) ==
  IF ~ASSERT_NO_BINDFLAGS(bindflags) THEN AssertFailed(<<>>, <<>>)
  ELSE Ok(value, <<>>, <<Ev("copy", "")>>)

Shapes ==
  {"float", "int", "unsigned int", "long", "unsigned long", "long long",
   "unsigned long long", "bool", "std::string", "boost::optional<std::string>",
   "std::vector<std::string>", "std::unordered_set<std::string>",
   "std::vector<DexType*>", "std::unordered_set<DexType*>",
   "std::unordered_set<const DexType*>", "std::unordered_set<DexClass*>",
   "std::unordered_set<DexMethod*>", "Configurable::MapOfVectorOfStrings",
   "Json::Value"}

\* the template dispatch as<T>(value, bindflags)
as(T, value, bindflags) ==
  CASE T = "float" -> as_float(value, bindflags)
    [] T = "int" -> as_int(value, bindflags)
    [] T = "unsigned int" -> as_unsigned_int(value, bindflags)
    [] T = "long" -> as_long(value, bindflags)
    [] T = "unsigned long" -> as_unsigned_long(value, bindflags)
    [] T = "long long" -> as_long_long(value, bindflags)
    [] T = "unsigned long long" -> as_unsigned_long_long(value, bindflags)
    [] T = "bool" -> as_bool(value, bindflags)
    [] T = "std::string" -> as_string(value, bindflags)
    [] T = "boost::optional<std::string>" -> as_optional_string(value, bindflags)
    [] T = "std::vector<std::string>" -> as_vector_string(value, bindflags)
    [] T = "std::unordered_set<std::string>" -> as_unordered_set_string(value, bindflags)
    [] T = "std::vector<DexType*>" -> as_vector_DexType(value, bindflags)
    [] T = "std::unordered_set<DexType*>" -> as_unordered_set_DexType(value, bindflags)
    [] T = "std::unordered_set<const DexType*>" ->
         as_unordered_set_const_DexType(value, bindflags)
    [] T = "std::unordered_set<DexClass*>" -> as_unordered_set_DexClass(value, bindflags)
    [] T = "std::unordered_set<DexMethod*>" -> as_unordered_set_DexMethod(value, bindflags)
    [] T = "Configurable::MapOfVectorOfStrings" ->
         as_MapOfVectorOfStrings(value, bindflags)
    [] T = "Json::Value" -> as_Json_Value(value, bindflags)

\* the flags as<T> accepts
LegalMask(T) ==
  CASE T = "boost::optional<std::string>" -> optionals_mask
    [] T \in {"std::vector<DexType*>", "std::unordered_set<DexType*>",
              "std::unordered_set<const DexType*>"} -> types_mask
    [] T = "std::unordered_set<DexClass*>" -> classes_mask
    [] T = "std::unordered_set<DexMethod*>" -> methods_mask
    [] OTHER -> {}

----------------------------------------------------------------------------
(* The unit: parse_config and reflect *)

\* m_after_configuration: an empty std::function, or the hook a declaration
\* registered. age tells whether the hook was registered during the call in
\* progress ("current") or during an earlier one ("earlier").
NoHook == [id |-> "", age |-> ""]
Hook(id) == [id |-> id, age |-> "current"]
Aged(h) == IF h = NoHook THEN h ELSE [h EXCEPT !.age = "earlier"]

\* m_parser: a default-constructed std::function, the lambda parse_config
\* installs (it holds a reference to the document) or the one reflect installs
EmptyParser == [fn |-> "empty", json |-> NullN]
parse_config_parser(json) == [fn |-> "parse_config", json |-> json]
\* (variant: reflect leaves the m_parser of the previous call installed)
reflect_parser_stale(old) == old
reflect_parser(old) == [fn |-> "reflect", json |-> NullN]

Absent == [present |-> FALSE, node |-> NullN]
Present(node) == [present |-> TRUE, node |-> node]

\* the m_parser a call installed, applied to a parameter name
m_parser_call(parser, name) ==
  IF parser.fn = "parse_config"
  THEN (IF name \in DOMAIN parser.json.m THEN Present(parser.json.m[name]) ELSE Absent)
  ELSE Absent

\* ConfigurableReflection
EmptyReflection == [name |-> "", doc |-> "", params |-> <<>>]
\* cr.params[key] = entry
\* (variant: an entry that exists is kept, as params.emplace(key, entry) would)
Put_keep_first(params, key, entry) ==
  [x \in DOMAIN params \cup {key} |-> IF x \in DOMAIN params THEN params[x] ELSE entry]
Put(params, key, entry) ==
  [x \in DOMAIN params \cup {key} |-> IF x = key THEN entry ELSE params[x]]

\* the m_reflector a call installed, applied to one parameter: the lambda of
\* parse_config does nothing, the lambda of reflect stores into cr.params
m_reflector_call(reflector, cr, param_name, param_doc, param_type) ==
  IF reflector # "reflect" THEN [status |-> "ok", cr |-> cr]
  ELSE CASE param_type[3] = "PRIMITIVE" ->
              [status |-> "ok",
               cr |-> [cr EXCEPT !.params =
                         Put(@, param_name,
                             <<param_type[1], EmptyReflection, "PRIMITIVE", param_doc>>)]]
         [] param_type[3] = "COMPOSITE" ->
              [status |-> "ok",
               cr |-> [cr EXCEPT !.params =
                         Put(@, param_name, <<"", param_type[2], "COMPOSITE", param_doc>>)]]
         [] OTHER -> [status |-> "assert", cr |-> cr]

\* IMPLEMENT_REFLECTOR / IMPLEMENT_REFLECTOR_EX: the type name of each shape
TypeName(T) ==
  CASE T = "float" -> "float"
    [] T = "bool" -> "bool"
    [] T \in {"int", "unsigned int"} -> "int"
    [] T \in {"long", "unsigned long", "long long", "unsigned long long"} -> "long"
    [] T \in {"std::string", "boost::optional<std::string>"} -> "string"
    [] T = "Json::Value" -> "json"
    [] T \in {"std::vector<std::string>", "std::vector<DexType*>"} -> "list"
    [] T \in {"std::unordered_set<std::string>", "std::unordered_set<const DexType*>",
              "std::unordered_set<DexType*>", "std::unordered_set<DexClass*>",
              "std::unordered_set<DexMethod*>"} -> "set"
    [] T = "Configurable::MapOfVectorOfStrings" -> "dict"

\* Configurable::reflect(reflector, name, doc, T&) for a primitive shape
reflect_primitive(reflector, cr, name, doc, T) ==
  m_reflector_call(reflector, cr, name, doc, <<TypeName(T), EmptyReflection, "PRIMITIVE">>)

\* The steps a declaration (bind_config) issues
Bind(name, T, bindflags, doc) ==
  [op |-> "bind", name |-> name, T |-> T, bindflags |-> bindflags, doc |-> doc,
   child |-> <<>>]
BindUnit(name, doc, child) ==
  [op |-> "bind_unit", name |-> name, T |-> "", bindflags |-> {}, doc |-> doc,
   child |-> child]
AfterConfiguration(id) ==
  [op |-> "after_configuration", name |-> id, T |-> "", bindflags |-> {}, doc |-> "",
   child |-> <<>>]

ParamNames == {"p", "q", "r", "sub", "x"}
Unset == [src |-> "unset", v |-> <<>>]
Default == [src |-> "default", v |-> <<>>]
FromJson(v) == [src |-> "json", v |-> v]
NoFields == [n \in ParamNames |-> Unset]

\* a unit as constructed
NewUnit ==
  [after |-> NoHook, parser |-> EmptyParser, reflector |-> "empty", fields |-> NoFields]

\* what a call did, in order: unit is the unit the step belongs to
Evt(ev, name, unit, info) == [ev |-> ev, name |-> name, unit |-> unit, info |-> info]
Lift(trace, unit) == [j \in 1..Len(trace) |-> Evt(trace[j].ev, trace[j].name, unit, "")]

get_config_name(unit) == unit
get_config_doc(unit) == IF unit = "top" THEN "doc of top" ELSE "doc of a nested unit"

\* m_after_configuration = {}
\* (variant: the hook of the previous call is left in place)
reset_after_configuration_forgotten(h) == h
reset_after_configuration(h) == NoHook

RECURSIVE bind_config(_, _, _, _)
RECURSIVE parse_config(_, _, _, _)
RECURSIVE reflect(_, _, _)

\* after_configuration(hook): the declaration registers its hook
after_configuration(unit, step, r) ==
  [r EXCEPT !.u.after = Hook(step.name),
            !.events = Append(@, Evt("after_configuration", step.name, unit, "current"))]

\* bind(name, default, dest, doc, bindflags) of a primitive shape: the
\* parameter is handed to m_reflector, then looked up with m_parser and, when
\* the document has it, converted into the field; a document without it
\* leaves the default.
bind(unit, step, r) ==
  LET rc == reflect_primitive(r.u.reflector, r.cr, step.name, step.doc, step.T)
      found == m_parser_call(r.u.parser, step.name)
      ev == r.events \o
              <<Evt("bind", step.name, unit, ""),
                Evt("m_parser", step.name, unit,
                    IF found.present THEN "present" ELSE "absent")>>
  IN IF rc.status # "ok" THEN [r EXCEPT !.status = rc.status, !.events = ev]
     ELSE IF found.present
     THEN LET c == as(step.T, found.node, step.bindflags)
          IN [u |-> IF c.status = "ok"
                    THEN [r.u EXCEPT !.fields[step.name] = FromJson(c.value)]
                    ELSE r.u,
              cr |-> rc.cr,
              events |-> (ev \o <<Evt("as", step.name, unit, c.status)>>)
                           \o Lift(c.trace, unit),
              status |-> c.status]
     ELSE [u |-> IF r.u.parser.fn = "parse_config"
                 THEN [r.u EXCEPT !.fields[step.name] = Default]
                 ELSE r.u,
           cr |-> rc.cr, events |-> ev, status |-> "ok"]

\* bind of a nested configurable unit: its reflection is the parameter's
\* descriptor, and the member of the document under its name configures it
bind_unit(unit, step, r) ==
  LET nested == reflect(step.name, NewUnit, step.child)
      rc == m_reflector_call(r.u.reflector, r.cr, step.name, step.doc,
                             <<"", nested.cr, "COMPOSITE">>)
      found == m_parser_call(r.u.parser, step.name)
      ev == (r.events \o <<Evt("bind", step.name, unit, "")>>) \o nested.events
              \o <<Evt("m_parser", step.name, unit,
                       IF found.present THEN "present" ELSE "absent")>>
  IN IF rc.status # "ok" THEN [r EXCEPT !.status = rc.status, !.events = ev]
     ELSE IF found.present
     THEN LET sub == parse_config(step.name, NewUnit, found.node, step.child)
          IN [u |-> [r.u EXCEPT !.fields[step.name] = FromJson(sub.u.fields)],
              cr |-> rc.cr,
              events |-> ev \o sub.events,
              status |-> sub.status]
     ELSE [u |-> r.u, cr |-> rc.cr, events |-> ev, status |-> "ok"]

\* bind_config(): the declaration, one step after the other, up to the first
\* step that fails
bind_config(unit, decl, j, r) ==
  IF j > Len(decl) \/ r.status # "ok" THEN r
  ELSE bind_config(unit, decl, j + 1,
                   CASE decl[j].op = "after_configuration" ->
                          after_configuration(unit, decl[j], r)
                     [] decl[j].op = "bind" -> bind(unit, decl[j], r)
                     [] decl[j].op = "bind_unit" -> bind_unit(unit, decl[j], r))

\* if (m_after_configuration) m_after_configuration();
run_after_configuration(unit, r) ==
  IF r.u.after # NoHook
  THEN [r EXCEPT !.events = Append(@, Evt("hook", r.u.after.id, unit, r.u.after.age))]
  ELSE r

\* Configurable::parse_config(json) on unit state u, with declaration decl
parse_config(unit, u, json, decl) ==
  LET u1 == [after |-> reset_after_configuration(u.after),
             parser |-> parse_config_parser(json),
             reflector |-> "parse_config",
             fields |-> u.fields]
      r == bind_config(unit, decl, 1,
                       [u |-> u1, cr |-> EmptyReflection,
                        events |-> <<Evt("bind_config", "", unit, "")>>,
                        status |-> "ok"])
  IN IF r.status # "ok" THEN r
     ELSE run_after_configuration(
            unit, [r EXCEPT !.events = Append(@, Evt("bind_config returned", "", unit, ""))])

\* Configurable::reflect() on unit state u, with declaration decl
reflect(unit, u, decl) ==
  LET cr == [name |-> get_config_name(unit), doc |-> get_config_doc(unit), params |-> <<>>]
      u1 == [after |-> reset_after_configuration(u.after),
             parser |-> reflect_parser(u.parser),
             reflector |-> "reflect",
             fields |-> u.fields]
      r == bind_config(unit, decl, 1,
                       [u |-> u1, cr |-> cr,
                        events |-> <<Evt("bind_config", "", unit, "")>>,
                        status |-> "ok"])
  IN IF r.status # "ok" THEN r
     ELSE [r EXCEPT !.events = Append(@, Evt("bind_config returned", "", unit, ""))]

----------------------------------------------------------------------------
(* The calls made on the unit *)

ChildDeclaration == <<Bind("x", "bool", {}, "doc x"), AfterConfiguration("hc")>>

StepP == Bind("p", "std::string", {}, "doc p")
StepPAgain == Bind("p", "int", {}, "p once more")
StepQ == Bind("q", "std::vector<DexType*>", {types_warn_if_unresolvable}, "doc q")
StepQStrict ==
  Bind("q", "std::unordered_set<DexType*>", {types_error_if_unresolvable}, "strict q")
StepR == Bind("r", "Configurable::MapOfVectorOfStrings", {}, "doc r")
StepSub == BindUnit("sub", "doc sub", ChildDeclaration)
StepH1 == AfterConfiguration("h1")
StepH2 == AfterConfiguration("h2")

\* what bind_config may do in one call: the declaration is the unit's own
\* code, and may differ from one call to the next (it may register its hook
\* in one call and not in the next, or bind a name twice)
Declarations ==
  {<<>>,
   <<StepP>>,
   <<StepP, StepQ, StepH1>>,
   <<StepP, StepPAgain, StepH2>>,
   <<StepH1, StepR, StepH2>>,
   <<StepSub, StepQStrict>>,
   <<StepQ, StepSub, StepH1>>}

Documents ==
  {ObjN(<<>>),
   ObjN("p" :> StrN("a") @@ "q" :> ArrN(<<StrN("a"), StrN("c")>>)),
   ObjN("p" :> IntN(1) @@ "q" :> ArrN(<<StrN("b")>>)
          @@ "r" :> ObjN("a" :> ArrN(<<StrN("a")>>)) @@ "sub" :> ObjN("x" :> BoolN(TRUE))),
   ObjN("p" :> StrN("b") @@ "r" :> StrN("a"))}

NoCall == [shape |-> "", node |-> NullN, flags |-> {}]

NoLast ==
  [op |-> "none", status |-> "ok", events |-> <<>>, cr |-> EmptyReflection,
   decl |-> <<>>, json |-> NullN, had_hook |-> FALSE, had_json |-> FALSE]

UnitInit ==
  /\ m_after_configuration = NewUnit.after
  /\ m_parser = NewUnit.parser
  /\ m_reflector = NewUnit.reflector
  /\ fields = NewUnit.fields
  /\ last = NoLast

\* the unit as the next call finds it
Unit ==
  [after |-> Aged(m_after_configuration), parser |-> m_parser,
   reflector |-> m_reflector, fields |-> fields]

\* the unit as the call leaves it, and what the call did
Leave(op, r, decl, json) ==
  /\ m_after_configuration' = r.u.after
  /\ m_parser' = r.u.parser
  /\ m_reflector' = r.u.reflector
  /\ fields' = r.u.fields
  /\ last' = [op |-> op, status |-> r.status, events |-> r.events, cr |-> r.cr,
              decl |-> decl, json |-> json,
              had_hook |-> m_after_configuration # NoHook,
              had_json |-> m_parser.fn = "parse_config"]
  /\ UNCHANGED <<pc, call, out>>

\* a call of parse_config(json); a failed assertion ends the program
ParseConfig(json, decl) ==
  /\ pc = "unit"
  /\ last.status # "assert"
  /\ Leave("parse_config", parse_config("top", Unit, json, decl), decl, json)

\* a call of reflect()
Reflect(decl) ==
  /\ pc = "unit"
  /\ last.status # "assert"
  /\ Leave("reflect", reflect("top", Unit, decl), decl, NullN)

Init ==
  /\ UnitInit
  /\ pc = "unit"
  /\ call = NoCall
  /\ out = Pending

Next ==
  \/ \E json \in Documents, decl \in Declarations : ParseConfig(json, decl)
  \/ \E decl \in Declarations : Reflect(decl)

Spec == Init /\ [][Next]_vars

----------------------------------------------------------------------------
(* Properties of parse_config and reflect *)

\* the events of kind ev that the last call logged for the unit itself
TopEvents(ev) == SelectSeq(last.events, LAMBDA e : e.unit = "top" /\ e.ev = ev)
LastEvent == last.events[Len(last.events)]

\* C1: every parse_config call runs bind_config once. When bind_config
\* returns and has registered a hook, the hook registered last is run once,
\* as the last thing the call does, after bind_config has returned; otherwise
\* no hook is run. A hook that runs was registered during the call that runs
\* it, never during an earlier parse_config or reflect call.
C1_HookOncePerCall ==
  last.op = "parse_config" =>
    LET registered == TopEvents("after_configuration")
        run == TopEvents("hook")
    IN /\ Len(TopEvents("bind_config")) = 1
       /\ last.events[1] = Evt("bind_config", "", "top", "")
       /\ \A j \in 1..Len(last.events) :
            last.events[j].ev = "hook" => last.events[j].info = "current"
       /\ IF last.status = "ok" /\ registered # <<>>
          THEN /\ Len(run) = 1
               /\ run[1].name = registered[Len(registered)].name
               /\ LastEvent = run[1]
               /\ last.events[Len(last.events) - 1] = Evt("bind_config returned", "", "top", "")
          ELSE run = <<>>

\* a second call, on a unit that holds a hook and a document from an earlier
\* call, whose declaration registers no hook
C1_Witness ==
  /\ last.op = "parse_config"
  /\ last.had_hook
  /\ last.had_json
  /\ last.status = "ok"
  /\ last.decl = <<StepP>>
  /\ m_after_configuration = NoHook
  /\ TopEvents("hook") = <<>>

C1_WitnessRuns ==
  /\ last.op = "parse_config"
  /\ last.had_hook
  /\ last.decl = <<StepH1, StepR, StepH2>>
  /\ last.status = "ok"
  /\ LastEvent = Evt("hook", "h2", "top", "current")

\* C2: during reflect(), whatever the unit went through before, every lookup
\* of the declaration returns absent, nothing is converted, no symbol table
\* is queried and no hook is run, not even one the declaration registers: the
\* call does nothing but run bind_config and its bind / after_configuration
\* steps.
C2_ReflectReadsNothing ==
  last.op = "reflect" =>
    /\ last.status = "ok"
    /\ \A j \in 1..Len(last.events) :
         /\ last.events[j].ev \in {"bind_config", "bind_config returned", "bind",
                                   "m_parser", "after_configuration"}
         /\ last.events[j].ev = "m_parser" => last.events[j].info = "absent"

C2_Witness ==
  /\ last.op = "reflect"
  /\ last.had_json
  /\ last.had_hook
  /\ TopEvents("after_configuration") # <<>>
  /\ TopEvents("m_parser") # <<>>
  /\ m_after_configuration = Hook("h1")

BindSteps(decl) == SelectSeq(decl, LAMBDA s : s.op \in {"bind", "bind_unit"})
BoundNames(decl) == {BindSteps(decl)[j].name : j \in 1..Len(BindSteps(decl))}
LastBindOf(decl, n) ==
  LET binds == BindSteps(decl)
  IN binds[CHOOSE j \in 1..Len(binds) :
             /\ binds[j].name = n
             /\ \A k \in 1..Len(binds) : binds[k].name = n => k <= j]

\* C7 as stated: reflect() returns a tree with the unit's name and doc and
\* one entry per bind call issued.
C7_OneEntryPerBindCall ==
  last.op = "reflect" =>
    /\ last.status = "ok"
    /\ last.cr.name = get_config_name("top")
    /\ last.cr.doc = get_config_doc("top")
    /\ Cardinality(DOMAIN last.cr.params) = Len(TopEvents("bind"))

\* C7 as amended: reflect() returns a tree with the unit's name and doc and
\* one entry per distinct parameter name bound; the entry holds the doc and
\* the descriptor (type name, or the nested unit's tree) of the last bind
\* call issued for the name.
C7_OneEntryPerName ==
  last.op = "reflect" =>
    /\ last.status = "ok"
    /\ last.cr.name = get_config_name("top")
    /\ last.cr.doc = get_config_doc("top")
    /\ DOMAIN last.cr.params = BoundNames(last.decl)
    /\ Cardinality(DOMAIN last.cr.params) <= Len(TopEvents("bind"))
    /\ \A n \in BoundNames(last.decl) :
         LET s == LastBindOf(last.decl, n)
             e == last.cr.params[n]
         IN /\ e[4] = s.doc
            /\ IF s.op = "bind"
               THEN e[1] = TypeName(s.T) /\ e[2] = EmptyReflection /\ e[3] = "PRIMITIVE"
               ELSE /\ e[1] = ""
                    /\ e[3] = "COMPOSITE"
                    /\ e[2].name = get_config_name(s.name)
                    /\ DOMAIN e[2].params = BoundNames(s.child)

C7_Witness ==
  /\ last.op = "reflect"
  /\ last.had_json = FALSE
  /\ last.decl = <<StepQ, StepSub, StepH1>>
  /\ DOMAIN last.cr.params = {"q", "sub"}
  /\ last.cr.params["q"] = <<"list", EmptyReflection, "PRIMITIVE", "doc q">>
  /\ last.cr.params["sub"][3] = "COMPOSITE"
  /\ last.cr.params["sub"][2].params["x"] = <<"bool", EmptyReflection, "PRIMITIVE", "doc x">>

----------------------------------------------------------------------------
(* The conversion calls that are tried *)

StringNodes(S) == {StrN(s) : s \in S}
Scalars == {NullN, BoolN(TRUE), IntN(1), IntN(-1), StrN("")} \cup StringNodes(Names)
StringArrays(n) == {ArrN(q) : q \in SeqsUpTo(StringNodes(Names), n)}
\* arrays with an element that is not a string
OddArrays == {ArrN(<<IntN(1)>>), ArrN(<<StrN("a"), ArrN(<<>>)>>)}
\* what an object member may hold: an array of strings, or a value of the wrong shape
MemberValues(n) ==
  {ArrN(q) : q \in SeqsUpTo(StringNodes(Keys), n)} \cup {StrN("a"), ArrN(<<IntN(1)>>)}
Objects(n) == {ObjN(f) : f \in UNION {[D -> MemberValues(n)] : D \in SUBSET Keys}}

Nodes == Scalars \cup StringArrays(MaxLen) \cup OddArrays \cup Objects(MaxObjLen)

\* every shape on every node, under every flag word the shape accepts
ConvCalls ==
  UNION {{[shape |-> T, node |-> n, flags |-> f] : n \in Nodes, f \in SUBSET LegalMask(T)} :
           T \in Shapes}

\* every shape under every flag word, on nodes of every kind
FlagNodes ==
  {NullN, IntN(1), StrN(""), StrN("a")} \cup StringArrays(MaxFlagLen) \cup OddArrays
    \cup {ObjN(<<>>), ObjN("a" :> ArrN(<<StrN("a")>>)), ObjN("a" :> StrN("a"))}
FlagCalls ==
  {[shape |-> T, node |-> n, flags |-> f] :
     T \in Shapes, n \in FlagNodes, f \in FlagWords}

InitConv ==
  /\ UnitInit
  /\ pc = "ready"
  /\ call \in ConvCalls
  /\ out = Pending

InitFlags ==
  /\ UnitInit
  /\ pc = "ready"
  /\ call \in FlagCalls
  /\ out = Pending

\* one call of as<T>(call.node, call.flags), whose outcome is r
Apply(T, r) ==
  /\ pc = "ready"
  /\ call.shape = T
  /\ out' = r
  /\ pc' = "done"
  /\ UNCHANGED <<call, m_after_configuration, m_parser, m_reflector, fields, last>>

Do_as_float == Apply("float", as_float(call.node, call.flags))
Do_as_int == Apply("int", as_int(call.node, call.flags))
Do_as_unsigned_int == Apply("unsigned int", as_unsigned_int(call.node, call.flags))
Do_as_long == Apply("long", as_long(call.node, call.flags))
Do_as_unsigned_long == Apply("unsigned long", as_unsigned_long(call.node, call.flags))
Do_as_long_long == Apply("long long", as_long_long(call.node, call.flags))
Do_as_unsigned_long_long ==
  Apply("unsigned long long", as_unsigned_long_long(call.node, call.flags))
Do_as_bool == Apply("bool", as_bool(call.node, call.flags))
Do_as_string == Apply("std::string", as_string(call.node, call.flags))
Do_as_optional_string ==
  Apply("boost::optional<std::string>", as_optional_string(call.node, call.flags))
Do_as_vector_string ==
  Apply("std::vector<std::string>", as_vector_string(call.node, call.flags))
Do_as_unordered_set_string ==
  Apply("std::unordered_set<std::string>", as_unordered_set_string(call.node, call.flags))
Do_as_vector_DexType ==
  Apply("std::vector<DexType*>", as_vector_DexType(call.node, call.flags))
Do_as_unordered_set_DexType ==
  Apply("std::unordered_set<DexType*>", as_unordered_set_DexType(call.node, call.flags))
Do_as_unordered_set_const_DexType ==
  Apply("std::unordered_set<const DexType*>",
        as_unordered_set_const_DexType(call.node, call.flags))
Do_as_unordered_set_DexClass ==
  Apply("std::unordered_set<DexClass*>", as_unordered_set_DexClass(call.node, call.flags))
Do_as_unordered_set_DexMethod ==
  Apply("std::unordered_set<DexMethod*>", as_unordered_set_DexMethod(call.node, call.flags))
Do_as_MapOfVectorOfStrings ==
  Apply("Configurable::MapOfVectorOfStrings",
        as_MapOfVectorOfStrings(call.node, call.flags))
Do_as_Json_Value == Apply("Json::Value", as_Json_Value(call.node, call.flags))

NextConv ==
  \/ Do_as_float
  \/ Do_as_int
  \/ Do_as_unsigned_int
  \/ Do_as_long
  \/ Do_as_unsigned_long
  \/ Do_as_long_long
  \/ Do_as_unsigned_long_long
  \/ Do_as_bool
  \/ Do_as_string
  \/ Do_as_optional_string
  \/ Do_as_vector_string
  \/ Do_as_unordered_set_string
  \/ Do_as_vector_DexType
  \/ Do_as_unordered_set_DexType
  \/ Do_as_unordered_set_const_DexType
  \/ Do_as_unordered_set_DexClass
  \/ Do_as_unordered_set_DexMethod
  \/ Do_as_MapOfVectorOfStrings
  \/ Do_as_Json_Value

SpecConv == InitConv /\ [][NextConv]_vars
SpecFlags == InitFlags /\ [][NextConv]_vars

----------------------------------------------------------------------------
(* Properties of the conversions *)

IsStringArray(n) == isArray(n) /\ \A j \in 1..Len(n.items) : isString(n.items[j])
NamesOf(n) == [j \in 1..Len(n.items) |-> n.items[j].s]
Range(q) == {q[j] : j \in 1..Len(q)}
IsKnownType(name) == name \in KnownTypes
DexTypeOf(name) == [sym |-> "DexType", name |-> name]
DexMethodOf(name) == [sym |-> "DexMethod", name |-> name]
EventsOf(trace, ev) == SelectSeq(trace, LAMBDA e : e.ev = ev)
Done(T) == pc = "done" /\ call.shape = T

\* C3: as<T> fails its assertion whenever the flag word has a bit outside the
\* mask T accepts, whatever the node is, and it does so before it reads the
\* node, queries a symbol table or prints anything.
C3_IllegalFlagsAbortFirst ==
  (pc = "done" /\ call.flags \ LegalMask(call.shape) # {}) =>
    /\ out.status = "assert"
    /\ out.trace = <<>>
    /\ out.diags = <<>>

C3_Witness ==
  /\ Done("std::unordered_set<DexMethod*>")
  /\ call.flags = {methods_warn_if_unresolvable, types_warn_if_unresolvable}
  /\ call.node = ArrN(<<StrN("c")>>)
  /\ out.status = "assert"

\* C4: as<std::vector<DexType*>> of an array of names. With the error bit
\* clear (warn_if_unresolvable set or not) the result is the resolved types of
\* the names that resolve, in their original order, every name having been
\* looked up; with the error bit set the first unresolved name fails the
\* assertion, no later name is looked up and no result is returned.
C4_VectorOfTypes ==
  (Done("std::vector<DexType*>") /\ IsStringArray(call.node)) =>
    LET names == NamesOf(call.node)
        kept == SelectSeq(names, IsKnownType)
        unresolved == {j \in 1..Len(names) : names[j] \notin KnownTypes}
        lookups == EventsOf(out.trace, "get_type")
    IN IF types_error_if_unresolvable \in call.flags /\ unresolved # {}
       THEN /\ out.status = "assert"
            /\ out.value = <<>>
            /\ Len(lookups) \in unresolved
            /\ \A j \in unresolved : Len(lookups) <= j
       ELSE /\ out.status = "ok"
            /\ out.value = [j \in 1..Len(kept) |-> DexTypeOf(kept[j])]
            /\ Len(lookups) = Len(names)

C4_Witness ==
  /\ Done("std::vector<DexType*>")
  /\ call.flags = {types_warn_if_unresolvable}
  /\ call.node = ArrN(<<StrN("b"), StrN("c"), StrN("a")>>)
  /\ out.status = "ok"
  /\ out.value = <<DexTypeOf("b"), DexTypeOf("a")>>

ResolvedShapes ==
  {"std::vector<DexType*>", "std::unordered_set<DexType*>",
   "std::unordered_set<const DexType*>", "std::unordered_set<DexClass*>",
   "std::unordered_set<DexMethod*>"}
ErrorBit(T) ==
  CASE T = "std::unordered_set<DexClass*>" -> classes_error_if_unresolvable
    [] T = "std::unordered_set<DexMethod*>" -> methods_error_if_unresolvable
    [] OTHER -> types_error_if_unresolvable
WarnBit(T) ==
  CASE T = "std::unordered_set<DexClass*>" -> classes_warn_if_unresolvable
    [] T = "std::unordered_set<DexMethod*>" -> methods_warn_if_unresolvable
    [] OTHER -> types_warn_if_unresolvable
Resolves(T, name) ==
  CASE T = "std::unordered_set<DexClass*>" -> name \in KnownTypes \cap KnownClasses
    [] T = "std::unordered_set<DexMethod*>" -> name \in KnownMethods
    [] OTHER -> name \in KnownTypes

\* C5: in a Type, Class or Method conversion that returns (error bit clear),
\* one "failed to resolve" diagnostic is printed per unresolved element when
\* warn_if_unresolvable is set, and none when it is clear.
C5_DiagnosticIffWarn ==
  (/\ pc = "done"
   /\ call.shape \in ResolvedShapes
   /\ IsStringArray(call.node)
   /\ ErrorBit(call.shape) \notin call.flags
   /\ out.status = "ok") =>
    LET names == NamesOf(call.node)
        unresolved == {j \in 1..Len(names) : ~Resolves(call.shape, names[j])}
    IN Len(EventsOf(out.diags, "failed to resolve")) =
         IF WarnBit(call.shape) \in call.flags THEN Cardinality(unresolved) ELSE 0

\* C6: as<MapOfVectorOfStrings> of an object whose members are all arrays of
\* strings returns one entry per member, holding the member's strings in
\* order, members with an empty array included; any other node throws and
\* returns nothing.
C6_OneEntryPerKey ==
  Done("Configurable::MapOfVectorOfStrings") =>
    IF isObject(call.node) /\ \A k \in DOMAIN call.node.m : IsStringArray(call.node.m[k])
    THEN /\ out.status = "ok"
         /\ DOMAIN out.value = DOMAIN call.node.m
         /\ \A k \in DOMAIN call.node.m : out.value[k] = NamesOf(call.node.m[k])
    ELSE /\ out.status = "throw"
         /\ out.value = <<>>

\* C8: as<std::unordered_set<DexMethod*>> of an array of names. is_def is
\* asked only of names that resolve. The assertion fails exactly when an
\* unresolved name meets error_if_unresolvable or a resolved name that is not
\* a definition meets error_if_not_def, and the name it fails on is of that
\* kind; otherwise the result is the set of the names that resolve to a
\* definition.
C8_MethodGates ==
  (Done("std::unordered_set<DexMethod*>") /\ IsStringArray(call.node)) =>
    LET names == NamesOf(call.node)
        unresolved == {n \in Range(names) : n \notin KnownMethods}
        not_def == {n \in Range(names) : n \in KnownMethods /\ n \notin DefinedMethods}
        aborts == \/ unresolved # {} /\ methods_error_if_unresolvable \in call.flags
                  \/ not_def # {} /\ methods_error_if_not_def \in call.flags
        culprit == out.trace[Len(out.trace)]
    IN /\ \A j \in 1..Len(out.trace) :
            out.trace[j].ev = "is_def" => out.trace[j].name \in KnownMethods
       /\ IF aborts
          THEN /\ out.status = "assert"
               /\ out.value = <<>>
               /\ \/ /\ culprit.ev = "get_method"
                     /\ culprit.name \in unresolved
                     /\ methods_error_if_unresolvable \in call.flags
                  \/ /\ culprit.ev = "is_def"
                     /\ culprit.name \in not_def
                     /\ methods_error_if_not_def \in call.flags
          ELSE /\ out.status = "ok"
               /\ out.value = {DexMethodOf(n) : n \in Range(names) \cap DefinedMethods}

C8_Witness ==
  /\ Done("std::unordered_set<DexMethod*>")
  /\ call.node = ArrN(<<StrN("c"), StrN("a")>>)
  /\ call.flags = {methods_error_if_not_def}
  /\ out.status = "ok"
  /\ out.value = {DexMethodOf("a")}

C8_WitnessNotDef ==
  /\ Done("std::unordered_set<DexMethod*>")
  /\ call.node = ArrN(<<StrN("a"), StrN("b")>>)
  /\ call.flags = {methods_error_if_unresolvable}
  /\ out.status = "ok"
  /\ out.value = {DexMethodOf("a")}

\* C9: as<std::unordered_set<std::string>> of an array of strings is the set
\* of its distinct elements, so every array with the same distinct elements
\* (a reordering, a copy with duplicates) converts to an equal set;
\* as<std::vector<std::string>> keeps every element, in order.
C9_SetVersusSequence ==
  /\ (Done("std::unordered_set<std::string>") /\ IsStringArray(call.node)) =>
       /\ out.status = "ok"
       /\ out.value = Range(NamesOf(call.node))
       /\ \A other \in StringArrays(MaxLen) :
            Range(NamesOf(other)) = Range(NamesOf(call.node)) =>
              as_unordered_set_string(other, {}).value = out.value
  /\ (Done("std::vector<std::string>") /\ IsStringArray(call.node)) =>
       /\ out.status = "ok"
       /\ out.value = NamesOf(call.node)

C9_Witness ==
  /\ Done("std::vector<std::string>")
  /\ call.node = ArrN(<<StrN("a"), StrN("b"), StrN("a")>>)
  /\ out.value = <<"a", "b", "a">>
  /\ as_unordered_set_string(call.node, {}).value = {"a", "b"}
  /\ as_unordered_set_string(ArrN(<<StrN("b"), StrN("a")>>), {}).value = {"a", "b"}

\* C10: as<boost::optional<std::string>> returns boost::none exactly when the
\* node's string is empty and skip_empty_string is set, and otherwise the
\* node's string as a present value.
C10_OptionalString ==
  (/\ Done("boost::optional<std::string>")
   /\ CanAsString(call.node)
   /\ call.flags \subseteq {optionals_skip_empty_string}) =>
    /\ out.status = "ok"
    /\ out.value.present = FALSE <=>
         (asString(call.node) = "" /\ optionals_skip_empty_string \in call.flags)
    /\ out.value.present => out.value.s = asString(call.node)

C10_Witness ==
  /\ Done("boost::optional<std::string>")
  /\ call.node = StrN("")
  /\ call.flags = {optionals_skip_empty_string}
  /\ out.status = "ok"
  /\ out.value = none

====
